---------------------------- MODULE Spec2Model ----------------------------
(***************************************************************************)
(* Lease consumption simulator: the lease allocation engine                *)
(* (Simulator.simulateLeaseUsage).                                         *)
(*                                                                         *)
(* The repository carries two copies of the engine:                        *)
(*   - src/pkg/simulation/simulator.go  (lines 142-286)                     *)
(*   - src/pkg/simulation/events.go     (lines 213-361)                     *)
(* They differ in the promotion of a waiting job (events.go keeps the      *)
(* original StartTime) and in the execution-timeout phase (events.go       *)
(* drops the job from the active list and decrements activeLeases).        *)
(* The variable `engine` selects the copy that runs.                       *)
(*                                                                         *)
(* Time is counted in minutes since simulationStart.                       *)
(***************************************************************************)
EXTENDS Integers, Sequences, FiniteSets, TLC

(***************************************************************************)
(* Bounds of the model.                                                    *)
(***************************************************************************)
MaxInst == 3
\* The clock stops here; every run of the engine on the inputs below ends long
\* before.
MaxTime == 400

StartTimes == {0, 3, 10}
JobDurations == {5, 30, 60}
MaxActiveLeasesValues == {1, 2}
LeaseWaitTimeoutValues == {30, 65}
JobTimeoutDurationValues == {30, 90}
SimulationDurationValues == {10, 60}

(***************************************************************************)
(* Program constants.                                                      *)
(***************************************************************************)
WaitIncrement == 5
TickStep == 5
SampleInterval == 30

EngineSimulator == "simulator.go"
EngineEvents == "events.go"

EventTypeLeaseAcquired == "lease-acquired"
EventTypeLeaseReleased == "lease-released"
EventTypeJobWaiting == "job-waiting"
EventTypeJobTimeout == "job-timeout"
EventTypeMaxExceeded == "max-exceeded"

\* The format strings of the event messages (the job name and the printed
\* durations are left out).
MsgAcquired == "acquired lease"
MsgMaxExceeded == "Max active leases exceeded"
MsgWaiting == "waiting for lease"
MsgReleased == "completed and released lease"
MsgAcquiredAfterWaiting == "acquired lease after waiting"
MsgWaitTimeout == "timed out waiting for lease"
MsgExecTimeout == "exceeded execution timeout"

VARIABLES
    engine,        \* which copy of simulateLeaseUsage runs
    config,        \* config.Config: the scalar parameters
    scheduled,     \* the instance list as Run handed it over (never changed)
    jobInstances,  \* the sorted instance list; instances are addressed by index
    jobIndex,      \* number of instances already taken from jobInstances
    activeLeases,
    activeJobs,    \* sequence of instance indices
    waitingJobs,   \* sequence of instance indices
    currentTime,
    events,        \* s.events
    pc,            \* position in Run and in the loop body
    timePoints,    \* s.timePoints
    sampler,       \* the locals of generateTimePoints
    gen,           \* the run of generateCronInstances: job, cursor, instances
    exitStatus,    \* exit status of the command, -1 while it runs
    history        \* what the engine held at the end of each tick

vars == <<engine, config, scheduled, jobInstances, jobIndex, activeLeases, activeJobs,
          waitingJobs, currentTime, events, pc, timePoints, sampler, gen, exitStatus,
          history>>

simulationStart == 0
simulationEnd == simulationStart + config.SimulationDuration

(***************************************************************************)
(* Data.                                                                   *)
(***************************************************************************)
JobInstance(start, duration) ==
    [Job |-> [Duration |-> duration],
     StartTime |-> start,
     EndTime |-> start + duration,
     LeaseAcquired |-> FALSE,
     LeaseWaitTime |-> 0,
     TimedOut |-> FALSE]

Event(time, type, job, leases, message, isWarning) ==
    [Time |-> time, Type |-> type, JobInstance |-> job,
     ActiveLeases |-> leases, Message |-> message, IsWarning |-> isWarning]

\* Faulty variant: the event takes the place of the last one logged.
addEventOverwriting(evs, event) ==
    IF Len(evs) = 0 THEN <<event>> ELSE [evs EXCEPT ![Len(evs)] = event]

\* Faulty variant: the event is put at the front of the log.
addEventFront(evs, event) == <<event>> \o evs

addEvent(evs, event) == Append(evs, event)

\* The instance lists Run can hand to simulateLeaseUsage: sorted by StartTime.
IsSorted(list) ==
    \A i \in 1..Len(list), j \in 1..Len(list) :
        i < j => list[i].StartTime <= list[j].StartTime

InstanceLists ==
    LET raw == UNION {[1..n -> StartTimes \X JobDurations] : n \in 0..MaxInst}
        mk(f) == [i \in 1..Len(f) |-> JobInstance(f[i][1], f[i][2])]
    IN {l \in {mk(f) : f \in raw} : IsSorted(l)}

Configs ==
    [MaxActiveLeases : MaxActiveLeasesValues,
     JobTimeoutDuration : JobTimeoutDurationValues,
     LeaseWaitTimeout : LeaseWaitTimeoutValues,
     SimulationDuration : SimulationDurationValues]

(***************************************************************************)
(* The loop-local state the phases of one tick transform.                  *)
(***************************************************************************)
Locals ==
    [jobInstances |-> jobInstances, jobIndex |-> jobIndex,
     activeLeases |-> activeLeases, activeJobs |-> activeJobs,
     waitingJobs |-> waitingJobs, events |-> events]

(***************************************************************************)
(* Phase 1: jobs that should start.                                        *)
(***************************************************************************)
\* Faulty variant: an instance starting exactly at the tick is left for the
\* next tick.
ShouldStartStrict(inst, t) == inst.StartTime < t

ShouldStart(inst, t) == inst.StartTime < t \/ inst.StartTime = t

\* Faulty variant: the capacity test is off by one.
AvailableLeasesOffByOne(leases) == config.MaxActiveLeases - leases + 1

AvailableLeases(leases) == config.MaxActiveLeases - leases

\* activeLeases++ of a direct admission.
AcquireLease(leases) == leases + 1

RECURSIVE StartLoop(_, _)
StartLoop(s, t) ==
    IF s.jobIndex < Len(s.jobInstances)
       /\ ShouldStart(s.jobInstances[s.jobIndex + 1], t)
    THEN
        LET job == s.jobIndex + 1
        IN  IF AvailableLeases(s.activeLeases) > 0
            THEN
                LET leases == AcquireLease(s.activeLeases)
                    ev1 == addEvent(s.events,
                               Event(t, EventTypeLeaseAcquired, job, leases,
                                     MsgAcquired, FALSE))
                    ev2 == IF leases > config.MaxActiveLeases
                           THEN addEvent(ev1,
                                    Event(t, EventTypeMaxExceeded, job, leases,
                                          MsgMaxExceeded, TRUE))
                           ELSE ev1
                IN  StartLoop([s EXCEPT !.jobIndex = job,
                                        !.activeLeases = leases,
                                        !.jobInstances[job].LeaseAcquired = TRUE,
                                        !.activeJobs = Append(@, job),
                                        !.events = ev2], t)
            ELSE
                StartLoop([s EXCEPT !.jobIndex = job,
                                    !.waitingJobs = Append(@, job),
                                    !.jobInstances[job].LeaseWaitTime = 0,
                                    !.events = addEvent(@,
                                        Event(t, EventTypeJobWaiting, job,
                                              s.activeLeases, MsgWaiting, TRUE))], t)
    ELSE s

(***************************************************************************)
(* Phase 2: jobs that should finish; a released lease goes to the head of  *)
(* the waiting list.                                                       *)
(***************************************************************************)
IsFinished(inst, t) == t > inst.EndTime \/ t = inst.EndTime

\* simulator.go: the promoted job is re-timed, start and end.
PromoteWaitingJob(inst, t) ==
    [inst EXCEPT !.LeaseAcquired = TRUE,
                 !.StartTime = t,
                 !.EndTime = t + inst.Job.Duration]

\* events.go: the assignment of StartTime is commented out.
PromoteWaitingJobEv(inst, t) ==
    [inst EXCEPT !.LeaseAcquired = TRUE,
                 !.EndTime = t + inst.Job.Duration]

\* Faulty variant: the most recently queued job is taken.
DequeueLastWaitingJob(waiting) ==
    [job |-> waiting[Len(waiting)], rest |-> SubSeq(waiting, 1, Len(waiting) - 1)]

\* waitingJob := waitingJobs[0]; waitingJobs = waitingJobs[1:]
DequeueWaitingJob(waiting) == [job |-> Head(waiting), rest |-> Tail(waiting)]

\* activeLeases-- of a completion.
ReleaseLease(leases) == leases - 1

\* Faulty variant: the promotion forgets to count the lease.
ReacquireLeaseForgotten(leases) == leases

\* activeLeases++ of a promotion.
ReacquireLease(leases) == leases + 1

RECURSIVE FinishLoop(_, _, _, _)
FinishLoop(s, k, remainingJobs, t) ==
    IF k > Len(s.activeJobs)
    THEN [s EXCEPT !.activeJobs = remainingJobs]
    ELSE
        LET job == s.activeJobs[k]
        IN  IF IsFinished(s.jobInstances[job], t)
            THEN
                LET released == ReleaseLease(s.activeLeases)
                    ev1 == addEvent(s.events,
                               Event(t, EventTypeLeaseReleased, job, released,
                                     MsgReleased, FALSE))
                IN  IF Len(s.waitingJobs) > 0
                    THEN
                        LET dequeued == DequeueWaitingJob(s.waitingJobs)
                            waitingJob == dequeued.job
                            leases == ReacquireLease(released)
                            promoted ==
                                IF engine = EngineSimulator
                                THEN PromoteWaitingJob(s.jobInstances[waitingJob], t)
                                ELSE PromoteWaitingJobEv(s.jobInstances[waitingJob], t)
                        IN  FinishLoop(
                                [s EXCEPT !.activeLeases = leases,
                                          !.waitingJobs = dequeued.rest,
                                          !.jobInstances[waitingJob] = promoted,
                                          !.events = addEvent(ev1,
                                              Event(t, EventTypeLeaseAcquired,
                                                    waitingJob, leases,
                                                    MsgAcquiredAfterWaiting, FALSE))],
                                k + 1, Append(remainingJobs, waitingJob), t)
                    ELSE
                        FinishLoop([s EXCEPT !.activeLeases = released,
                                             !.events = ev1],
                                   k + 1, remainingJobs, t)
            ELSE FinishLoop(s, k + 1, Append(remainingJobs, job), t)

(***************************************************************************)
(* Phase 3: waiting job timeouts.                                          *)
(***************************************************************************)
\* Faulty variant: the bound itself does not count as a timeout.
WaitExpiredStrict(inst) == inst.LeaseWaitTime > config.LeaseWaitTimeout

WaitExpired(inst) == inst.LeaseWaitTime >= config.LeaseWaitTimeout

RECURSIVE WaitLoop(_, _, _, _)
WaitLoop(s, k, remainingWaitingJobs, t) ==
    IF k > Len(s.waitingJobs)
    THEN [s EXCEPT !.waitingJobs = remainingWaitingJobs]
    ELSE
        LET job == s.waitingJobs[k]
            s1 == [s EXCEPT !.jobInstances[job].LeaseWaitTime = @ + WaitIncrement]
        IN  IF WaitExpired(s1.jobInstances[job])
            THEN
                WaitLoop([s1 EXCEPT !.jobInstances[job].TimedOut = TRUE,
                                    !.events = addEvent(@,
                                        Event(t, EventTypeJobTimeout, job,
                                              s.activeLeases, MsgWaitTimeout, TRUE))],
                         k + 1, remainingWaitingJobs, t)
            ELSE WaitLoop(s1, k + 1, Append(remainingWaitingJobs, job), t)

(***************************************************************************)
(* Phase 4: job execution timeouts.                                        *)
(***************************************************************************)
\* Faulty variant: the TimedOut flag is not consulted.
ExecExpiredUnflagged(inst, t) ==
    t - inst.StartTime >= config.JobTimeoutDuration

ExecExpired(inst, t) ==
    t - inst.StartTime >= config.JobTimeoutDuration /\ ~inst.TimedOut

\* simulator.go: the job is flagged and keeps its lease.
RECURSIVE ExecLoop(_, _, _)
ExecLoop(s, k, t) ==
    IF k > Len(s.activeJobs)
    THEN s
    ELSE
        LET job == s.activeJobs[k]
        IN  IF ExecExpired(s.jobInstances[job], t)
            THEN
                ExecLoop([s EXCEPT !.jobInstances[job].TimedOut = TRUE,
                                   !.events = addEvent(@,
                                       Event(t, EventTypeJobTimeout, job,
                                             s.activeLeases, MsgExecTimeout, TRUE))],
                         k + 1, t)
            ELSE ExecLoop(s, k + 1, t)

\* events.go: the job is flagged, its lease is given back and it leaves the
\* active list.
RECURSIVE ExecLoopEv(_, _, _, _)
ExecLoopEv(s, k, stillRunning, t) ==
    IF k > Len(s.activeJobs)
    THEN [s EXCEPT !.activeJobs = stillRunning]
    ELSE
        LET job == s.activeJobs[k]
        IN  IF ExecExpired(s.jobInstances[job], t)
            THEN
                ExecLoopEv([s EXCEPT !.jobInstances[job].TimedOut = TRUE,
                                     !.activeLeases = @ - 1,
                                     !.events = addEvent(@,
                                         Event(t, EventTypeJobTimeout, job,
                                               s.activeLeases - 1, MsgExecTimeout, TRUE))],
                           k + 1, stillRunning, t)
            ELSE ExecLoopEv(s, k + 1, Append(stillRunning, job), t)

(***************************************************************************)
(* Loop control.                                                           *)
(***************************************************************************)
\* Faulty variant: the result of currentTime.Add is dropped.
AdvanceClockDiscarded(t) == t

\* currentTime = currentTime.Add(5 * time.Minute)
AdvanceClock(t) == t + TickStep

\* Faulty variant: the loop runs on the clock alone.
LoopConditionClockOnly == currentTime < simulationEnd

LoopCondition ==
    currentTime < simulationEnd \/ Len(activeJobs) > 0 \/ Len(waitingJobs) > 0

\* Faulty variant: the early break is missing.
BreakConditionNever == FALSE

BreakCondition ==
    jobIndex >= Len(jobInstances) /\ Len(activeJobs) = 0 /\ Len(waitingJobs) = 0

\* Faulty variant: waiting jobs are timed out before finished jobs are released.
NextPhaseTimeoutsFirst(phase) ==
    CASE phase = "start" -> "waitTimeout"
      [] phase = "waitTimeout" -> "finish"
      [] phase = "finish" -> "execTimeout"
      [] phase = "execTimeout" -> "step"

\* The order of the four blocks of the loop body, and the clock step after them.
NextPhase(phase) ==
    CASE phase = "start" -> "finish"
      [] phase = "finish" -> "waitTimeout"
      [] phase = "waitTimeout" -> "execTimeout"
      [] phase = "execTimeout" -> "step"

(***************************************************************************)
(* generateTimePoints: the event log replayed into one sample per          *)
(* 30 minutes.                                                             *)
(***************************************************************************)
TimePoint(time, leases, waiting) ==
    [Time |-> time, ActiveLeases |-> leases, WaitingJobs |-> waiting]

\* Faulty variant: the window end is left out.
SampleLoopConditionExclusive(t) == t < simulationEnd

SampleLoopCondition(t) == t < simulationEnd \/ t = simulationEnd

\* Faulty variant: the counter is decremented without looking at it.
CountWaitingUnguarded(waiting, event) ==
    IF event.Type = EventTypeJobWaiting THEN waiting + 1
    ELSE IF event.Type = EventTypeLeaseAcquired THEN waiting - 1
    ELSE waiting

\* The waitingJobs counter after one replayed event.
CountWaiting(waiting, event) ==
    IF event.Type = EventTypeJobWaiting THEN waiting + 1
    ELSE IF event.Type = EventTypeLeaseAcquired
         THEN (IF waiting > 0 THEN waiting - 1 ELSE waiting)
    ELSE waiting

\* Faulty variant: the events of the sampled instant itself are left for the
\* next sample.
ReplayConditionStrict(evs, eventIndex, t) ==
    eventIndex < Len(evs) /\ evs[eventIndex + 1].Time < t

\* The test of the inner loop: the next event of the log is not later than
\* the sample being taken.
ReplayCondition(evs, eventIndex, t) ==
    /\ eventIndex < Len(evs)
    /\ (evs[eventIndex + 1].Time < t \/ evs[eventIndex + 1].Time = t)

\* The locals of generateTimePoints as the loop is entered; eventIndex counts
\* the events already replayed.
SamplerLocals ==
    [currentTime |-> simulationStart, activeLeases |-> 0, waitingJobs |-> 0,
     eventIndex |-> 0]

\* GetWarnings, as the loop runs: k events have been looked at.
RECURSIVE WarningsLoop(_, _, _)
WarningsLoop(evs, k, warnings) ==
    IF k >= Len(evs)
    THEN warnings
    ELSE WarningsLoop(evs, k + 1,
                      IF evs[k + 1].IsWarning
                      THEN Append(warnings, evs[k + 1])
                      ELSE warnings)

\* Faulty variant: the test of the flag is inverted.
RECURSIVE NonWarningsLoop(_, _, _)
NonWarningsLoop(evs, k, warnings) ==
    IF k >= Len(evs)
    THEN warnings
    ELSE NonWarningsLoop(evs, k + 1,
                         IF ~evs[k + 1].IsWarning
                         THEN Append(warnings, evs[k + 1])
                         ELSE warnings)

GetWarningsInverted == NonWarningsLoop(events, 0, <<>>)

GetWarnings == WarningsLoop(events, 0, <<>>)

GetEvents == events

GetTimePoints == timePoints

\* The generator is not running while the engine is.
GenIdle == [pc |-> "idle"]

(***************************************************************************)
(* The state machine.                                                      *)
(***************************************************************************)
Init ==
    /\ engine \in {EngineSimulator, EngineEvents}
    /\ config \in Configs
    /\ jobInstances \in InstanceLists
    /\ scheduled = jobInstances
    /\ jobIndex = 0
    /\ activeLeases = 0
    /\ activeJobs = <<>>
    /\ waitingJobs = <<>>
    /\ currentTime = simulationStart
    /\ events = <<>>
    /\ pc = "loop"
    /\ timePoints = <<>>
    /\ sampler = SamplerLocals
    /\ gen = GenIdle
    /\ exitStatus = -1
    /\ history = {}

Apply(s) ==
    /\ jobInstances' = s.jobInstances
    /\ jobIndex' = s.jobIndex
    /\ activeLeases' = s.activeLeases
    /\ activeJobs' = s.activeJobs
    /\ waitingJobs' = s.waitingJobs
    /\ events' = s.events

LoopTest ==
    /\ pc = "loop"
    /\ pc' = IF LoopCondition THEN "start" ELSE "done"
    /\ UNCHANGED <<engine, config, scheduled, jobInstances, jobIndex, activeLeases,
                   activeJobs, waitingJobs, currentTime, events, timePoints, sampler, gen, exitStatus,
                   history>>

StartJobs ==
    /\ pc = "start"
    /\ Apply(StartLoop(Locals, currentTime))
    /\ pc' = NextPhase("start")
    /\ UNCHANGED <<engine, config, scheduled, currentTime, timePoints, sampler, gen, exitStatus,
                   history>>

FinishJobs ==
    /\ pc = "finish"
    /\ Apply(FinishLoop(Locals, 1, <<>>, currentTime))
    /\ pc' = NextPhase("finish")
    /\ UNCHANGED <<engine, config, scheduled, currentTime, timePoints, sampler, gen, exitStatus,
                   history>>

WaitTimeouts ==
    /\ pc = "waitTimeout"
    /\ Apply(WaitLoop(Locals, 1, <<>>, currentTime))
    /\ pc' = NextPhase("waitTimeout")
    /\ UNCHANGED <<engine, config, scheduled, currentTime, timePoints, sampler, gen, exitStatus,
                   history>>

ExecTimeouts ==
    /\ pc = "execTimeout"
    /\ engine = EngineSimulator
    /\ Apply(ExecLoop(Locals, 1, currentTime))
    /\ pc' = NextPhase("execTimeout")
    /\ UNCHANGED <<engine, config, scheduled, currentTime, timePoints, sampler, gen, exitStatus,
                   history>>

ExecTimeoutsEv ==
    /\ pc = "execTimeout"
    /\ engine = EngineEvents
    /\ Apply(ExecLoopEv(Locals, 1, <<>>, currentTime))
    /\ pc' = NextPhase("execTimeout")
    /\ UNCHANGED <<engine, config, scheduled, currentTime, timePoints, sampler, gen, exitStatus,
                   history>>

\* The engine's counter and lists when the four phases of the tick are over.
EndOfTickState ==
    [Time |-> currentTime, ActiveLeases |-> activeLeases,
     ActiveJobs |-> Len(activeJobs), WaitingJobs |-> Len(waitingJobs)]

NextStep ==
    /\ pc = "step"
    /\ currentTime < MaxTime
    /\ currentTime' = AdvanceClock(currentTime)
    /\ pc' = IF BreakCondition THEN "done" ELSE "loop"
    /\ history' = history \cup {EndOfTickState}
    /\ UNCHANGED <<engine, config, scheduled, jobInstances, jobIndex, activeLeases,
                   activeJobs, waitingJobs, events, timePoints, sampler, gen, exitStatus>>

\* Run, after simulateLeaseUsage has returned: generateTimePoints up to the
\* first test of its loop.
GenerateTimePoints ==
    /\ pc = "done"
    /\ sampler' = SamplerLocals
    /\ pc' = IF Len(events) = 0 \/ ~SampleLoopCondition(simulationStart)
             THEN "sampled"
             ELSE "sample"
    /\ UNCHANGED <<engine, config, scheduled, jobInstances, jobIndex, activeLeases,
                   activeJobs, waitingJobs, currentTime, events, timePoints, gen,
                   exitStatus,
                   history>>

\* One turn of the inner loop: an event of the log is replayed.
SampleReplay ==
    /\ pc = "sample"
    /\ ReplayCondition(events, sampler.eventIndex, sampler.currentTime)
    /\ LET event == events[sampler.eventIndex + 1]
       IN  sampler' = [sampler EXCEPT
                          !.activeLeases = event.ActiveLeases,
                          !.waitingJobs = CountWaiting(@, event),
                          !.eventIndex = @ + 1]
    /\ UNCHANGED <<engine, config, scheduled, jobInstances, jobIndex, activeLeases,
                   activeJobs, waitingJobs, currentTime, events, pc, timePoints, gen,
                   exitStatus,
                   history>>

\* The rest of a turn of the outer loop: the sample is appended, the time
\* moves on and the loop is tested again.
SampleEmit ==
    /\ pc = "sample"
    /\ ~ReplayCondition(events, sampler.eventIndex, sampler.currentTime)
    /\ timePoints' = Append(timePoints,
                            TimePoint(sampler.currentTime, sampler.activeLeases,
                                      sampler.waitingJobs))
    /\ sampler' = [sampler EXCEPT !.currentTime = @ + SampleInterval]
    /\ pc' = IF SampleLoopCondition(sampler.currentTime + SampleInterval)
             THEN "sample"
             ELSE "sampled"
    /\ UNCHANGED <<engine, config, scheduled, jobInstances, jobIndex, activeLeases,
                   activeJobs, waitingJobs, currentTime, events, gen,
                   exitStatus,
                   history>>

\* The value runSimulation returns once Run has returned: nil, whatever
\* GetWarnings holds.
RunSimulationFails(warnings) == FALSE

\* The command exits with 1 when runSimulation returns an error.
ExitStatus(failed) == IF failed THEN 1 ELSE 0

\* runSimulation after sim.Run: the getters, the report, the return.
RunSimulationReturns ==
    /\ pc = "sampled"
    /\ exitStatus' = ExitStatus(RunSimulationFails(GetWarnings))
    /\ pc' = "exited"
    /\ UNCHANGED <<engine, config, scheduled, jobInstances, jobIndex, activeLeases,
                   activeJobs, waitingJobs, currentTime, events, timePoints, sampler,
                   gen,
                   history>>

Next ==
    \/ LoopTest
    \/ StartJobs
    \/ FinishJobs
    \/ WaitTimeouts
    \/ ExecTimeouts
    \/ ExecTimeoutsEv
    \/ NextStep
    \/ GenerateTimePoints
    \/ SampleReplay
    \/ SampleEmit
    \/ RunSimulationReturns

Spec == Init /\ [][Next]_vars

\* The loop is sequential code: a step that can be taken is taken.
FairSpec == Spec /\ WF_vars(Next)

TypeOK ==
    /\ engine \in {EngineSimulator, EngineEvents}
    /\ config \in Configs
    /\ jobIndex \in 0..Len(jobInstances)
    /\ activeLeases \in Int
    /\ \A k \in 1..Len(activeJobs) : activeJobs[k] \in 1..Len(jobInstances)
    /\ \A k \in 1..Len(waitingJobs) : waitingJobs[k] \in 1..Len(jobInstances)
    /\ pc \in {"loop", "start", "finish", "waitTimeout", "execTimeout", "step", "done",
              "sample", "sampled", "exited"}

(***************************************************************************)
(* The engine on instances of both trigger types.                          *)
(***************************************************************************)
TriggerTypeCron == "cron"
TriggerTypeReleaseController == "release-controller"

MaxTypedInst == 2

TypedInstance(start, duration, trigger) ==
    [JobInstance(start, duration) EXCEPT
        !.Job = [Duration |-> duration, TriggerType |-> trigger]]

TypedInstanceLists ==
    LET raw == UNION {[1..n -> {0, 3} \X {5, 60}
                                \X {TriggerTypeCron, TriggerTypeReleaseController}] :
                        n \in 0..MaxTypedInst}
        mk(f) == [i \in 1..Len(f) |-> TypedInstance(f[i][1], f[i][2], f[i][3])]
    IN {l \in {mk(f) : f \in raw} : IsSorted(l)}

TypedInit ==
    /\ engine \in {EngineSimulator, EngineEvents}
    /\ config \in Configs
    /\ jobInstances \in TypedInstanceLists
    /\ scheduled = jobInstances
    /\ jobIndex = 0
    /\ activeLeases = 0
    /\ activeJobs = <<>>
    /\ waitingJobs = <<>>
    /\ currentTime = simulationStart
    /\ events = <<>>
    /\ pc = "loop"
    /\ timePoints = <<>>
    /\ sampler = SamplerLocals
    /\ gen = GenIdle
    /\ exitStatus = -1
    /\ history = {}

TypedSpec == TypedInit /\ [][Next]_vars

(***************************************************************************)
(* The engine on lists with an instance that arrives after the first       *)
(* execution timeouts.                                                     *)
(***************************************************************************)
LateInstanceLists ==
    LET raw == UNION {[1..n -> {0, 10, 35} \X {5, 60}] : n \in 0..MaxInst}
        mk(f) == [i \in 1..Len(f) |-> JobInstance(f[i][1], f[i][2])]
    IN {l \in {mk(f) : f \in raw} : IsSorted(l)}

LateInit ==
    /\ engine \in {EngineSimulator, EngineEvents}
    /\ config \in Configs
    /\ jobInstances \in LateInstanceLists
    /\ scheduled = jobInstances
    /\ jobIndex = 0
    /\ activeLeases = 0
    /\ activeJobs = <<>>
    /\ waitingJobs = <<>>
    /\ currentTime = simulationStart
    /\ events = <<>>
    /\ pc = "loop"
    /\ timePoints = <<>>
    /\ sampler = SamplerLocals
    /\ gen = GenIdle
    /\ exitStatus = -1
    /\ history = {}

LateSpec == LateInit /\ [][Next]_vars

(***************************************************************************)
(* generateCronInstances: one instance per activation of the job's cron    *)
(* schedule in the window. Minutes count from simulationStart, a Monday    *)
(* at midnight.                                                            *)
(***************************************************************************)
\* A cronSchedule the parser rejects.
CronMalformed == [Valid |-> FALSE, Minute |-> 0, HourStep |-> 1]

\* "M */H * * *": minute M of every H-th hour of the day.
CronSchedules ==
    {[Valid |-> TRUE, Minute |-> m, HourStep |-> h] : m \in {0, 30}, h \in {8, 12}}

CronJobs ==
    {[Duration |-> duration, CronSchedule |-> schedule] :
        duration \in JobDurations, schedule \in CronSchedules \cup {CronMalformed}}

GenWindows == {720, 1000, 1440}

GenConfigs ==
    {c \in [MaxActiveLeases : MaxActiveLeasesValues,
            LeaseWaitTimeout : LeaseWaitTimeoutValues,
            JobTimeoutDuration : JobTimeoutDurationValues,
            SimulationDuration : GenWindows] :
        /\ c.MaxActiveLeases = 1
        /\ c.LeaseWaitTimeout = 30
        /\ c.JobTimeoutDuration = 30}

\* Faulty variant: every schedule string is taken as well-formed.
ParseNeverFails(cronSchedule) == FALSE

ParseFails(cronSchedule) == ~cronSchedule.Valid

Fires(schedule, t) ==
    /\ t % 60 = schedule.Minute
    /\ ((t \div 60) % 24) % schedule.HourStep = 0

\* schedule.Next(t) of the cron library: the first activation later than t.
ScheduleNext(schedule, t) ==
    LET later == {n \in (t + 1)..(t + 1440) : Fires(schedule, n)}
    IN  CHOOSE n \in later : \A m \in later : n <= m

\* Faulty variant: an activation at the window end is dropped too.
ExceedsWindowInclusive(nextRun) == nextRun >= simulationEnd

\* nextRun.After(s.simulationEnd)
ExceedsWindow(nextRun) == nextRun > simulationEnd

\* currentTime = nextRun.Add(time.Minute)
AdvanceCursor(nextRun) == nextRun + 1

GenInit ==
    /\ engine = EngineSimulator
    /\ config \in GenConfigs
    /\ scheduled = <<>>
    /\ jobInstances = <<>>
    /\ jobIndex = 0
    /\ activeLeases = 0
    /\ activeJobs = <<>>
    /\ waitingJobs = <<>>
    /\ currentTime = simulationStart
    /\ events = <<>>
    /\ pc = "generate"
    /\ timePoints = <<>>
    /\ sampler = SamplerLocals
    /\ exitStatus = -1
    /\ history = {}
    /\ \E job \in CronJobs :
            gen = [pc |-> "parse", job |-> job, currentTime |-> simulationStart,
                   instances |-> <<>>, warned |-> FALSE]

\* parser.Parse and the return on its error.
CronParse ==
    /\ gen.pc = "parse"
    /\ gen' = IF ParseFails(gen.job.CronSchedule)
              THEN [gen EXCEPT !.pc = "done", !.warned = TRUE]
              ELSE [gen EXCEPT !.pc = "loop", !.currentTime = simulationStart]
    /\ UNCHANGED <<engine, config, scheduled, jobInstances, jobIndex, activeLeases,
                   activeJobs, waitingJobs, currentTime, events, pc, timePoints, sampler, exitStatus,
                   history>>

\* One turn of the loop: its test, the break, the body.
CronIterate ==
    /\ gen.pc = "loop"
    /\ gen' = IF ~(gen.currentTime < simulationEnd)
              THEN [gen EXCEPT !.pc = "done"]
              ELSE LET nextRun == ScheduleNext(gen.job.CronSchedule, gen.currentTime)
                   IN  IF ExceedsWindow(nextRun)
                       THEN [gen EXCEPT !.pc = "done"]
                       ELSE [gen EXCEPT
                                !.instances = Append(@, JobInstance(nextRun, gen.job.Duration)),
                                !.currentTime = AdvanceCursor(nextRun)]
    /\ UNCHANGED <<engine, config, scheduled, jobInstances, jobIndex, activeLeases,
                   activeJobs, waitingJobs, currentTime, events, pc, timePoints, sampler, exitStatus,
                   history>>

GenNext ==
    \/ CronParse
    \/ CronIterate

GenSpec == GenInit /\ [][GenNext]_vars

(***************************************************************************)
(* Run: generateJobInstances over the configured jobs, the sort of the     *)
(* instances by start time, and the return.  A *config.Job is modelled by  *)
(* the job's position in s.config.Jobs.  The two files of the package      *)
(* generate the release-controller instances differently.                  *)
(***************************************************************************)
CronJob(cronSchedule) ==
    [TriggerType |-> TriggerTypeCron, Version |-> "4.18", Duration |-> 30,
     CronSchedule |-> cronSchedule]

ReleaseControllerJob(version) ==
    [TriggerType |-> TriggerTypeReleaseController, Version |-> version, Duration |-> 30,
     CronSchedule |-> CronMalformed]

\* "30 */8 * * *" and "0 */4 * * *"
HalfPastEveryEightHours == [Valid |-> TRUE, Minute |-> 30, HourStep |-> 8]
EveryFourHours == [Valid |-> TRUE, Minute |-> 0, HourStep |-> 4]

JobLists ==
    {<<>>,
     <<CronJob(HalfPastEveryEightHours)>>,
     <<CronJob(CronMalformed), CronJob(HalfPastEveryEightHours)>>,
     <<CronJob(EveryFourHours), CronJob(CronMalformed), CronJob(EveryFourHours)>>,
     <<CronJob(CronMalformed), ReleaseControllerJob("4.18")>>,
     <<ReleaseControllerJob("4.18"), ReleaseControllerJob("4.18")>>,
     <<ReleaseControllerJob("4.18"), ReleaseControllerJob("4.19")>>,
     <<CronJob(EveryFourHours), ReleaseControllerJob("4.19")>>}

RunConfigs ==
    {[MaxActiveLeases |-> 1, LeaseWaitTimeout |-> 30, JobTimeoutDuration |-> 30,
      SimulationDuration |-> 420, Jobs |-> jobs] : jobs \in JobLists}

\* &config.JobInstance{Job: job, StartTime: startTime, EndTime: startTime.Add(job.Duration)}
NewJobInstance(job, startTime) ==
    [JobInstance(startTime, config.Jobs[job].Duration) EXCEPT !.Job = job]

\* rand.Intn(n)
RandIntn(n) == 0..(n - 1)

GenLocals ==
    [pc |-> "jobs", i |-> 0, job |-> CronJob(CronMalformed), currentTime |-> simulationStart,
     instances |-> <<>>, warned |-> FALSE, all |-> <<>>, releaseControllerJobs |-> <<>>,
     versions |-> {}, version |-> "", releaseEvents |-> <<>>, err |-> "pending",
     previous |-> <<>>, rerun |-> FALSE]

RunInit ==
    /\ engine \in {EngineSimulator, EngineEvents}
    /\ config \in RunConfigs
    /\ scheduled = <<>>
    /\ jobInstances = <<>>
    /\ jobIndex = 0
    /\ activeLeases = 0
    /\ activeJobs = <<>>
    /\ waitingJobs = <<>>
    /\ currentTime = simulationStart
    /\ events = <<>>
    /\ pc = "generate"
    /\ timePoints = <<>>
    /\ sampler = SamplerLocals
    /\ exitStatus = -1
    /\ history = {}
    /\ gen = GenLocals

\* The loop of generateJobInstances over s.config.Jobs: one job per step.
GenerateJobInstances ==
    /\ gen.pc = "jobs"
    /\ gen.i < Len(config.Jobs)
    /\ LET i == gen.i + 1
           job == config.Jobs[i]
       IN  gen' =
             IF job.TriggerType = TriggerTypeCron
             THEN [gen EXCEPT !.i = i, !.pc = "parse", !.job = job, !.instances = <<>>]
             ELSE IF engine = EngineSimulator
             THEN [gen EXCEPT !.i = i, !.pc = "releaseController", !.instances = <<>>,
                              !.currentTime = simulationStart]
             ELSE [gen EXCEPT !.i = i, !.releaseControllerJobs = Append(@, i)]
    /\ UNCHANGED <<engine, config, scheduled, jobInstances, jobIndex, activeLeases,
                   activeJobs, waitingJobs, currentTime, events, pc, timePoints, sampler, exitStatus,
                   history>>

\* instances = append(instances, cronInstances...)
AppendCronInstances ==
    /\ pc = "generate"
    /\ gen.pc = "done"
    /\ gen.i > 0
    /\ gen' = [gen EXCEPT
                !.all = @ \o [k \in 1..Len(gen.instances) |->
                                [gen.instances[k] EXCEPT !.Job = gen.i]],
                !.instances = <<>>,
                !.pc = "jobs"]
    /\ UNCHANGED <<engine, config, scheduled, jobInstances, jobIndex, activeLeases,
                   activeJobs, waitingJobs, currentTime, events, pc, timePoints, sampler, exitStatus,
                   history>>

\* simulator.go: one turn of the loop of generateReleaseControllerInstances(job),
\* or its return and the append of its instances.
ReleaseControllerIterate ==
    /\ gen.pc = "releaseController"
    /\ \/ /\ gen.currentTime < simulationEnd
          /\ \E r \in RandIntn(8), q \in RandIntn(4) :
                LET startTime == gen.currentTime + r * 60
                IN  gen' = [gen EXCEPT
                              !.instances = Append(@, NewJobInstance(gen.i, startTime)),
                              !.currentTime = startTime + 6 * 60 + q * 60]
       \/ /\ ~(gen.currentTime < simulationEnd)
          /\ gen' = [gen EXCEPT !.all = @ \o gen.instances, !.instances = <<>>, !.pc = "jobs"]
    /\ UNCHANGED <<engine, config, scheduled, jobInstances, jobIndex, activeLeases,
                   activeJobs, waitingJobs, currentTime, events, pc, timePoints, sampler, exitStatus,
                   history>>

\* The end of the loop over the jobs; events.go goes on to the collected
\* release-controller jobs when there are some.
GenerateJobInstancesReturn ==
    /\ gen.pc = "jobs"
    /\ ~(gen.i < Len(config.Jobs))
    /\ gen' = IF engine = EngineEvents /\ Len(gen.releaseControllerJobs) > 0
              THEN [gen EXCEPT !.pc = "group"]
              ELSE [gen EXCEPT !.pc = "sort"]
    /\ UNCHANGED <<engine, config, scheduled, jobInstances, jobIndex, activeLeases,
                   activeJobs, waitingJobs, currentTime, events, pc, timePoints, sampler, exitStatus,
                   history>>

\* jobsByVersion[version]: the jobs of the version, in the order of the list.
SelectVersion(jobs, version) ==
    SelectSeq(jobs, LAMBDA j : config.Jobs[j].Version = version)

JobsByVersion(version) == SelectVersion(gen.releaseControllerJobs, version)

\* events.go: the jobs are grouped by version in a map.
GroupByVersion ==
    /\ gen.pc = "group"
    /\ gen' = [gen EXCEPT
                !.versions = {config.Jobs[gen.releaseControllerJobs[k]].Version :
                                k \in 1..Len(gen.releaseControllerJobs)},
                !.pc = "versions"]
    /\ UNCHANGED <<engine, config, scheduled, jobInstances, jobIndex, activeLeases,
                   activeJobs, waitingJobs, currentTime, events, pc, timePoints, sampler, exitStatus,
                   history>>

\* events.go: the range over the map takes the versions in an order the
\* language leaves open; the loop ends when every version had its turn.
RangeVersions ==
    /\ gen.pc = "versions"
    /\ \/ /\ gen.versions # {}
          /\ \E version \in gen.versions :
                gen' = [gen EXCEPT !.version = version, !.versions = @ \ {version},
                                   !.releaseEvents = <<>>, !.currentTime = simulationStart,
                                   !.pc = "releaseEvents"]
       \/ /\ gen.versions = {}
          /\ gen' = [gen EXCEPT !.pc = "sort"]
    /\ UNCHANGED <<engine, config, scheduled, jobInstances, jobIndex, activeLeases,
                   activeJobs, waitingJobs, currentTime, events, pc, timePoints, sampler, exitStatus,
                   history>>

\* For each release event, instances for all the jobs of the version.
RECURSIVE VersionInstances(_, _)
VersionInstances(releaseEvents, versionJobs) ==
    IF releaseEvents = <<>>
    THEN <<>>
    ELSE [k \in 1..Len(versionJobs) |-> NewJobInstance(versionJobs[k], Head(releaseEvents))]
            \o VersionInstances(Tail(releaseEvents), versionJobs)

\* events.go: one turn of the loop of generateReleaseEvents, or its return
\* and the instances of the version.
ReleaseEventIterate ==
    /\ gen.pc = "releaseEvents"
    /\ \/ /\ gen.currentTime < simulationEnd
          /\ \E r \in RandIntn(5) :
                gen' = [gen EXCEPT
                          !.releaseEvents = Append(@, gen.currentTime),
                          !.currentTime = @ + 4 * 60 + r * 60]
       \/ /\ ~(gen.currentTime < simulationEnd)
          /\ gen' = [gen EXCEPT
                      !.all = @ \o VersionInstances(gen.releaseEvents, JobsByVersion(gen.version)),
                      !.pc = "versions"]
    /\ UNCHANGED <<engine, config, scheduled, jobInstances, jobIndex, activeLeases,
                   activeJobs, waitingJobs, currentTime, events, pc, timePoints, sampler, exitStatus,
                   history>>

\* The less function handed to sort.Slice.
Less(a, b) == a.StartTime < b.StartTime

\* sort.Slice: the slice is left in an order where no element is less than
\* an earlier one; the order of elements neither of which is less than the
\* other is left open (the sort is not guaranteed to be stable): every such
\* order, built from the front.
RECURSIVE SortedOrders(_, _)
SortedOrders(instances, remaining) ==
    IF remaining = {}
    THEN {<<>>}
    ELSE LET first == {k \in remaining :
                        \A l \in remaining : ~Less(instances[l], instances[k])}
         IN  UNION {{<<instances[k]>> \o rest :
                        rest \in SortedOrders(instances, remaining \ {k})} : k \in first}

SortSlice(instances) == SortedOrders(instances, 1..Len(instances))

SortInstances ==
    /\ gen.pc = "sort"
    /\ jobInstances' \in SortSlice(gen.all)
    /\ gen' = [gen EXCEPT !.pc = "simulate"]
    /\ UNCHANGED <<engine, config, scheduled, jobIndex, activeLeases,
                   activeJobs, waitingJobs, currentTime, events, pc, timePoints, sampler, exitStatus,
                   history>>

\* The rest of Run, to its return.
RunReturns ==
    /\ gen.pc = "simulate"
    /\ gen' = [gen EXCEPT !.err = "nil", !.pc = "returned"]
    /\ UNCHANGED <<engine, config, scheduled, jobInstances, jobIndex, activeLeases,
                   activeJobs, waitingJobs, currentTime, events, pc, timePoints, sampler, exitStatus,
                   history>>

\* The instances of the list that share their start time with another one,
\* each named by its job and start time, in the order of the list.
SameInstant(instances) ==
    LET tied == SelectSeq(instances,
                    LAMBDA a : \E k, l \in 1..Len(instances) :
                        /\ k # l
                        /\ instances[k] = a
                        /\ instances[l].StartTime = a.StartTime)
    IN  [k \in 1..Len(tied) |-> <<tied[k].Job, tied[k].StartTime>>]

\* The command is run once more on the same configuration.
RunAgain ==
    /\ gen.pc = "returned"
    /\ ~gen.rerun
    /\ gen' = [GenLocals EXCEPT !.previous = SameInstant(jobInstances), !.rerun = TRUE]
    /\ jobInstances' = <<>>
    /\ UNCHANGED <<engine, config, scheduled, jobIndex, activeLeases,
                   activeJobs, waitingJobs, currentTime, events, pc, timePoints, sampler, exitStatus,
                   history>>

RunNext ==
    \/ GenerateJobInstances
    \/ CronParse
    \/ CronIterate
    \/ AppendCronInstances
    \/ ReleaseControllerIterate
    \/ GenerateJobInstancesReturn
    \/ GroupByVersion
    \/ RangeVersions
    \/ ReleaseEventIterate
    \/ SortInstances
    \/ RunReturns
    \/ RunAgain

RunSpec == RunInit /\ [][RunNext]_vars

(***************************************************************************)
(* LoadConfig and validateConfig.  The configuration is the one the YAML   *)
(* file unmarshals to; durations and counts may be zero or negative, names *)
(* and schedules empty, the trigger type any string.                       *)
(***************************************************************************)
MaxJobs == 2

RawJobs ==
    [Name : {"", "e2e"},
     Duration : {0, 30},
     TriggerType : {TriggerTypeCron, TriggerTypeReleaseController, "manual"},
     CronSchedule : {"", "0 */8 * * *"},
     IsReleaseController : {FALSE}]

RawConfigs ==
    [MaxActiveLeases : {-1, 0, 1},
     JobTimeoutDuration : {0, 30},
     LeaseWaitTimeout : {0, 30},
     SimulationDuration : {0, 60},
     Jobs : UNION {[1..n -> RawJobs] : n \in 0..MaxJobs}]

NoError == "nil"

LoadLocals(unmarshalled) ==
    [pc |-> "read", i |-> 0, job |-> <<>>, err |-> NoError, result |-> <<>>,
     unmarshalled |-> unmarshalled]

LoadInit ==
    /\ engine = EngineSimulator
    /\ config \in RawConfigs
    /\ scheduled = <<>>
    /\ jobInstances = <<>>
    /\ jobIndex = 0
    /\ activeLeases = 0
    /\ activeJobs = <<>>
    /\ waitingJobs = <<>>
    /\ currentTime = 0
    /\ events = <<>>
    /\ pc = "load"
    /\ timePoints = <<>>
    /\ sampler = SamplerLocals
    /\ exitStatus = -1
    /\ history = {}
    /\ gen = LoadLocals(config)

\* os.ReadFile and yaml.Unmarshal, each of which may fail.
LoadConfigRead ==
    /\ gen.pc = "read"
    /\ \E outcome \in {"ok", "failed to read config file", "failed to parse config file"} :
        gen' = IF outcome = "ok"
               THEN [gen EXCEPT !.pc = "validate"]
               ELSE [gen EXCEPT !.pc = "returned", !.err = outcome, !.result = <<>>]
    /\ UNCHANGED <<engine, config, scheduled, jobInstances, jobIndex, activeLeases,
                   activeJobs, waitingJobs, currentTime, events, pc, timePoints, sampler,
                   exitStatus, history>>

\* The checks ahead of the loop, in their order; the first that fails returns.
ValidateParameters(c) ==
    IF c.MaxActiveLeases <= 0 THEN "maxActiveLeases must be greater than 0"
    ELSE IF c.JobTimeoutDuration <= 0 THEN "jobTimeoutDuration must be greater than 0"
    ELSE IF c.LeaseWaitTimeout <= 0 THEN "leaseWaitTimeout must be greater than 0"
    ELSE IF c.SimulationDuration <= 0 THEN "simulationDuration must be greater than 0"
    ELSE IF Len(c.Jobs) = 0 THEN "at least one job must be defined"
    ELSE NoError

\* Faulty variant: a cron job may come without its schedule.
ValidateJobWithoutSchedule(job) ==
    IF job.Name = "" THEN "name is required"
    ELSE IF job.Duration <= 0 THEN "duration must be greater than 0"
    ELSE IF job.TriggerType # TriggerTypeCron /\ job.TriggerType # TriggerTypeReleaseController
    THEN "triggerType must be either 'cron' or 'release-controller'"
    ELSE NoError

\* The checks of the loop body, in their order.
ValidateJob(job) ==
    IF job.Name = "" THEN "name is required"
    ELSE IF job.Duration <= 0 THEN "duration must be greater than 0"
    ELSE IF job.TriggerType # TriggerTypeCron /\ job.TriggerType # TriggerTypeReleaseController
    THEN "triggerType must be either 'cron' or 'release-controller'"
    ELSE IF job.TriggerType = TriggerTypeCron /\ job.CronSchedule = ""
    THEN "cronSchedule is required for cron-type jobs"
    ELSE NoError

\* Faulty variant: the loop ranges over pointers to the jobs of the configuration.
MarkReleaseControllerInPlace(c, i, job) ==
    [c EXCEPT !.Jobs[i].IsReleaseController = job.IsReleaseController]

\* job.IsReleaseController = true: job is the loop's copy of config.Jobs[i],
\* the configuration does not get the assignment.
MarkReleaseController(c, i, job) == c

ValidateConfigParameters ==
    /\ gen.pc = "validate"
    /\ gen' = IF ValidateParameters(config) # NoError
              THEN [gen EXCEPT !.err = ValidateParameters(config), !.pc = "validated"]
              ELSE [gen EXCEPT !.i = 0, !.pc = "jobs"]
    /\ UNCHANGED <<engine, config, scheduled, jobInstances, jobIndex, activeLeases,
                   activeJobs, waitingJobs, currentTime, events, pc, timePoints, sampler,
                   exitStatus, history>>

\* One turn of the loop over config.Jobs.
ValidateConfigJob ==
    /\ gen.pc = "jobs"
    /\ gen.i < Len(config.Jobs)
    /\ LET i == gen.i + 1
           job == config.Jobs[i]
           marked == IF job.TriggerType = TriggerTypeReleaseController
                     THEN [job EXCEPT !.IsReleaseController = TRUE]
                     ELSE job
       IN  IF ValidateJob(job) # NoError
           THEN /\ gen' = [gen EXCEPT !.job = job, !.err = ValidateJob(job), !.pc = "validated"]
                /\ config' = config
           ELSE /\ gen' = [gen EXCEPT !.job = marked, !.i = i]
                /\ config' = MarkReleaseController(config, i, marked)
    /\ UNCHANGED <<engine, scheduled, jobInstances, jobIndex, activeLeases,
                   activeJobs, waitingJobs, currentTime, events, pc, timePoints, sampler,
                   exitStatus, history>>

\* return nil
ValidateConfigReturns ==
    /\ gen.pc = "jobs"
    /\ ~(gen.i < Len(config.Jobs))
    /\ gen' = [gen EXCEPT !.err = NoError, !.pc = "validated"]
    /\ UNCHANGED <<engine, config, scheduled, jobInstances, jobIndex, activeLeases,
                   activeJobs, waitingJobs, currentTime, events, pc, timePoints, sampler,
                   exitStatus, history>>

\* LoadConfig after validateConfig: nil and the error, or the configuration.
LoadConfigReturns ==
    /\ gen.pc = "validated"
    /\ gen' = IF gen.err # NoError
              THEN [gen EXCEPT !.result = <<>>, !.pc = "returned"]
              ELSE [gen EXCEPT !.result = <<config>>, !.pc = "returned"]
    /\ UNCHANGED <<engine, config, scheduled, jobInstances, jobIndex, activeLeases,
                   activeJobs, waitingJobs, currentTime, events, pc, timePoints, sampler,
                   exitStatus, history>>

LoadNext ==
    \/ LoadConfigRead
    \/ ValidateConfigParameters
    \/ ValidateConfigJob
    \/ ValidateConfigReturns
    \/ LoadConfigReturns

LoadSpec == LoadInit /\ [][LoadNext]_vars

(***************************************************************************)
(* Reading the event log.                                                  *)
(***************************************************************************)
Instances == 1..Len(jobInstances)
EventIndexes == 1..Len(events)
SeqRange(q) == {q[k] : k \in 1..Len(q)}

IsDirectAcquire(e) == e.Type = EventTypeLeaseAcquired /\ e.Message = MsgAcquired
IsPromotion(e) == e.Type = EventTypeLeaseAcquired /\ e.Message = MsgAcquiredAfterWaiting
IsWaiting(e) == e.Type = EventTypeJobWaiting
IsReleased(e) == e.Type = EventTypeLeaseReleased
IsWaitTimeout(e) == e.Type = EventTypeJobTimeout /\ e.Message = MsgWaitTimeout
IsExecTimeout(e) == e.Type = EventTypeJobTimeout /\ e.Message = MsgExecTimeout

\* Position in the log of the Waiting event of job j (0 when it never waited).
EnqueuePos(j) ==
    IF \E i \in EventIndexes : IsWaiting(events[i]) /\ events[i].JobInstance = j
    THEN CHOOSE i \in EventIndexes : IsWaiting(events[i]) /\ events[i].JobInstance = j
    ELSE 0

EndOfTick == pc \in {"step", "loop", "done", "sample", "sampled", "exited"}

(***************************************************************************)
(* C1: at the end of every tick activeLeases equals the number of          *)
(* instances in the active set, and it is never negative.                  *)
(***************************************************************************)
C1_ActiveCountMatchesActiveSet ==
    EndOfTick =>
        /\ activeLeases = Cardinality(SeqRange(activeJobs))
        /\ activeLeases = Len(activeJobs)
        /\ activeLeases >= 0

\* A tick in which a lease was released and handed to a waiting job while
\* another job stays active.
C1_Witness ==
    /\ pc = "step"
    /\ activeLeases = 2
    /\ \E i \in EventIndexes : IsPromotion(events[i]) /\ events[i].Time = currentTime

(***************************************************************************)
(* C2: activeLeases never exceeds maxActiveLeases and no max-exceeded      *)
(* event is ever logged.                                                   *)
(***************************************************************************)
C2_NeverOverCapacity ==
    /\ activeLeases <= config.MaxActiveLeases
    /\ \A i \in EventIndexes :
        /\ events[i].Type # EventTypeMaxExceeded
        /\ events[i].ActiveLeases <= config.MaxActiveLeases

\* The pool is full and an arriving instance has been refused a lease.
C2_Witness ==
    /\ config.MaxActiveLeases = 2
    /\ activeLeases = 2
    /\ Len(waitingJobs) > 0

C3_WitnessTimeout ==
    \E i \in EventIndexes, k \in EventIndexes :
        /\ i < k
        /\ IsWaitTimeout(events[i]) /\ IsPromotion(events[k])
        /\ EnqueuePos(events[k].JobInstance) < i

(***************************************************************************)
(* C4: a lease released in the completion phase of tick t goes to the head *)
(* of the waiting list, which becomes active at t with                     *)
(* EndTime = t + duration.  Scenario: one lease, A and B both scheduled at *)
(* 0 for 60 minutes, wait timeout above 60: A is active and B waits at 0;  *)
(* at 60 A has completed and B is active with EndTime = 120.               *)
(***************************************************************************)
FinishedCount ==
    Cardinality({k \in 1..Len(activeJobs) :
                    IsFinished(jobInstances[activeJobs[k]], currentTime)})

Min(a, b) == IF a < b THEN a ELSE b

\* The general statement, on the completion phase as one step.
C4_ReleasePromotesHead ==
    [][pc = "finish" =>
        LET m == Min(FinishedCount, Len(waitingJobs))
        IN  /\ waitingJobs' = SubSeq(waitingJobs, m + 1, Len(waitingJobs))
            /\ \A k \in 1..m :
                /\ waitingJobs[k] \in SeqRange(activeJobs')
                /\ jobInstances'[waitingJobs[k]].LeaseAcquired
                /\ jobInstances'[waitingJobs[k]].EndTime =
                       currentTime + jobInstances[waitingJobs[k]].Job.Duration
                /\ \E i \in 1..Len(events') :
                    /\ i > Len(events)
                    /\ IsPromotion(events'[i])
                    /\ events'[i].JobInstance = waitingJobs[k]
                    /\ events'[i].Time = currentTime]_vars

C4_ScenarioInput ==
    /\ config.MaxActiveLeases = 1
    /\ config.LeaseWaitTimeout > 60
    /\ Len(scheduled) = 2
    /\ \A j \in 1..Len(scheduled) :
        scheduled[j].StartTime = 0 /\ scheduled[j].Job.Duration = 60

C4_Scenario ==
    C4_ScenarioInput =>
        /\ (currentTime = 0 /\ pc \in {"finish", "waitTimeout", "execTimeout", "step"})
            => /\ activeJobs = <<1>>
               /\ waitingJobs = <<2>>
        /\ (currentTime = 60 /\ pc \in {"waitTimeout", "execTimeout", "step"})
            => /\ \E i \in EventIndexes :
                    /\ IsReleased(events[i])
                    /\ events[i].JobInstance = 1
                    /\ events[i].Time = 60
               /\ activeJobs = <<2>>
               /\ jobInstances[2].EndTime = 120

\* The scenario as the simulator.go copy runs it: B was promoted at 60.
C4_ScenarioReached ==
    /\ C4_ScenarioInput
    /\ currentTime = 60 /\ pc = "step"
    /\ activeJobs = <<2>>
    /\ jobInstances[2].EndTime = 120

(***************************************************************************)
(* C5: with leaseWaitTimeout = 30 an instance that is queued and never     *)
(* promoted times out in the 6th tick counted from the one that queued it  *)
(* (25 minutes later, 30 minutes accumulated), with a warning; it has left *)
(* the waiting list and never holds a lease.                               *)
(***************************************************************************)
HasEvent(j, P(_)) == \E i \in EventIndexes : events[i].JobInstance = j /\ P(events[i])

WaitTimeoutPhaseDone(t) ==
    currentTime > t \/ (currentTime = t /\ pc \in {"execTimeout", "step", "done", "sample", "sampled", "exited"})

C5_WaitTimeoutAtSixthTick ==
    config.LeaseWaitTimeout = 30 =>
        \A i \in EventIndexes :
            IsWaiting(events[i]) =>
                LET j == events[i].JobInstance
                    queuedAt == events[i].Time
                IN  /\ \A k \in EventIndexes :
                        (IsWaitTimeout(events[k]) /\ events[k].JobInstance = j)
                            => /\ events[k].Time = queuedAt + 5 * TickStep
                               /\ events[k].IsWarning
                               /\ jobInstances[j].LeaseWaitTime = 30
                               /\ jobInstances[j].TimedOut
                               /\ j \notin SeqRange(waitingJobs)
                               /\ j \notin SeqRange(activeJobs)
                               /\ ~HasEvent(j, IsPromotion)
                               /\ ~HasEvent(j, IsDirectAcquire)
                               /\ ~jobInstances[j].LeaseAcquired
                    /\ (WaitTimeoutPhaseDone(queuedAt + 5 * TickStep)
                        /\ ~HasEvent(j, IsPromotion))
                            => HasEvent(j, IsWaitTimeout)
                    /\ (~WaitTimeoutPhaseDone(queuedAt + 5 * TickStep)
                        /\ ~HasEvent(j, IsPromotion))
                            => j \in SeqRange(waitingJobs)

\* An instance has timed out of the queue and the run went on to its end.
C5_Witness ==
    /\ config.LeaseWaitTimeout = 30
    /\ pc = "done"
    /\ \E i \in EventIndexes : IsWaitTimeout(events[i])
    /\ \E i \in EventIndexes :
        IsPromotion(events[i]) /\ \E k \in 1..(i - 1) : IsWaitTimeout(events[k])

(***************************************************************************)
(* C6: the execution-timeout event is logged at most once per instance.    *)
(***************************************************************************)
C6_ExecTimeoutAtMostOnce ==
    \A i \in EventIndexes, k \in EventIndexes :
        (IsExecTimeout(events[i]) /\ IsExecTimeout(events[k])
         /\ events[i].JobInstance = events[k].JobInstance)
            => i = k

\* A flagged instance is still active two ticks after its flag.
C6_Witness ==
    \E i \in EventIndexes :
        /\ IsExecTimeout(events[i])
        /\ events[i].JobInstance \in SeqRange(activeJobs)
        /\ currentTime >= events[i].Time + 2 * TickStep
        /\ pc = "step"

(***************************************************************************)
(* C7: the execution-timeout phase frees no lease: it leaves activeLeases  *)
(* and the active list as they are; the flagged instance gives its lease   *)
(* back in the completion phase of the first tick at or after its EndTime. *)
(***************************************************************************)
C7_ExecTimeoutKeepsLease ==
    [][pc = "execTimeout" =>
        /\ activeLeases' = activeLeases
        /\ activeJobs' = activeJobs]_vars

\* The second half, on the log: a flagged instance is active until a
\* lease-released event of its own, logged at the first tick at or after its
\* EndTime.
C7_FlaggedReleasedByCompletion ==
    \A i \in EventIndexes :
        IsExecTimeout(events[i]) =>
            LET j == events[i].JobInstance
            IN  /\ (~HasEvent(j, IsReleased) /\ pc # "finish")
                    => j \in SeqRange(activeJobs)
                /\ \A k \in EventIndexes :
                    (IsReleased(events[k]) /\ events[k].JobInstance = j)
                        => /\ k > i
                           /\ events[k].Time >= jobInstances[j].EndTime
                           /\ events[k].Time - TickStep < jobInstances[j].EndTime

(***************************************************************************)
(* C8: for an instance promoted from the waiting list at tick p the        *)
(* execution-timeout event is logged only at a tick t with                 *)
(* t - p >= jobTimeoutDuration.                                            *)
(***************************************************************************)
C8_ExecTimeoutCountsFromPromotion ==
    \A i \in EventIndexes, k \in EventIndexes :
        (IsPromotion(events[i]) /\ IsExecTimeout(events[k])
         /\ events[i].JobInstance = events[k].JobInstance)
            => events[k].Time - events[i].Time >= config.JobTimeoutDuration

(***************************************************************************)
(* C9: when the loop has ended every instance of the input is in exactly   *)
(* one terminal state (completed, timed out waiting, timed out running);   *)
(* none is pending, active or waiting.                                     *)
(***************************************************************************)
Pending(j) == j > jobIndex
Active(j) == j \in SeqRange(activeJobs)
Waiting(j) == j \in SeqRange(waitingJobs)
Completed(j) == HasEvent(j, IsReleased)
TimedOutWait(j) == HasEvent(j, IsWaitTimeout)
TimedOutExecution(j) == HasEvent(j, IsExecTimeout)

TerminalStates(j) ==
    (IF Completed(j) THEN {"Completed"} ELSE {})
    \cup (IF TimedOutWait(j) THEN {"TimedOut(Wait)"} ELSE {})
    \cup (IF TimedOutExecution(j) THEN {"TimedOut(Execution)"} ELSE {})

C9_ExactlyOneTerminalState ==
    pc = "done" =>
        \A j \in Instances :
            /\ ~Pending(j) /\ ~Active(j) /\ ~Waiting(j)
            /\ Cardinality(TerminalStates(j)) = 1

\* The part of C9 that the engine does keep: an instance that was taken
\* from the list has left the active and waiting lists when the loop ends.
C9_NoneActiveOrWaitingAtExit ==
    pc = "done" => \A j \in Instances : ~Active(j) /\ ~Waiting(j)

(***************************************************************************)
(* C10: the loop ends after finitely many ticks, whatever timeouts occur.  *)
(***************************************************************************)
C10_Terminates == <>(pc = "done")

\* A run that has ended after a wait timeout and an execution timeout.
C10_Witness ==
    /\ pc = "done"
    /\ currentTime < MaxTime
    /\ \E i \in EventIndexes : IsWaitTimeout(events[i])
    /\ \E i \in EventIndexes : IsExecTimeout(events[i])

(***************************************************************************)
(* C11: whenever the loop has exited, the clock has reached the window end *)
(* and no instance is Active or Waiting; the loop never exits while the    *)
(* clock is still before the window end.                                   *)
(***************************************************************************)
LoopExited == pc \in {"done", "sample", "sampled", "exited"}

C11_ExitsAtWindowEnd ==
    LoopExited =>
        /\ currentTime >= simulationEnd
        /\ Len(activeJobs) = 0
        /\ Len(waitingJobs) = 0

\* C11, as the code has it: at the exit nothing is Active or Waiting, and the
\* clock has reached the window end unless every instance of the list has
\* been taken from it, in which case the loop exits at the end of the tick
\* that left nothing Active or Waiting.
C11_ExitsDrained ==
    LoopExited =>
        /\ Len(activeJobs) = 0
        /\ Len(waitingJobs) = 0
        /\ (currentTime >= simulationEnd \/ jobIndex >= Len(jobInstances))

\* A non-empty list all of whose instances finished before the window end.
C11_Witness ==
    /\ pc = "done"
    /\ Len(scheduled) > 0
    /\ currentTime < simulationEnd
    /\ \E i \in EventIndexes : IsReleased(events[i])

(***************************************************************************)
(* C12: among the events of one timestamp, the events of admission (direct *)
(* LeaseAcquired, Waiting) come before every LeaseReleased and every       *)
(* LeaseAcquired of a promotion, these before every WaitTimeout, and       *)
(* these before every ExecutionTimeout.                                    *)
(***************************************************************************)
PhaseRank(e) ==
    IF IsReleased(e) \/ IsPromotion(e) THEN 2
    ELSE IF IsWaitTimeout(e) THEN 3
    ELSE IF IsExecTimeout(e) THEN 4
    ELSE 1

C12_PhaseOrderWithinTick ==
    \A i, k \in EventIndexes :
        (i < k /\ events[i].Time = events[k].Time) =>
            PhaseRank(events[i]) <= PhaseRank(events[k])

\* A log in which one tick has an admission before a release or promotion,
\* and one tick has a wait timeout before an execution timeout.
C12_Witness ==
    /\ \E a, b \in EventIndexes :
            /\ a < b
            /\ events[a].Time = events[b].Time
            /\ PhaseRank(events[a]) = 1
            /\ PhaseRank(events[b]) = 2
    /\ \E c, d \in EventIndexes :
            /\ c < d
            /\ events[c].Time = events[d].Time
            /\ IsWaitTimeout(events[c])
            /\ IsExecTimeout(events[d])

(***************************************************************************)
(* C13: the event log is ordered by timestamp: each event is no later      *)
(* than the one after it.                                                  *)
(***************************************************************************)
C13_LogOrderedByTime ==
    \A i \in EventIndexes :
        i < Len(events) => events[i].Time <= events[i + 1].Time

\* A log with events of three different ticks.
C13_Witness ==
    \E a, b, c \in EventIndexes :
        /\ events[a].Time < events[b].Time
        /\ events[b].Time < events[c].Time

(***************************************************************************)
(* C15: the admission phase of tick t takes each instance not yet taken    *)
(* whose startTime <= t exactly once, in list order. The instance becomes  *)
(* Active with a LeaseAcquired event (activeCount incremented) iff         *)
(* activeCount < maxActiveLeases at that moment; otherwise it goes to the  *)
(* tail of the waiting list with waitAccumulated = 0 and a Waiting event   *)
(* that is a warning, activeCount unchanged.                               *)
(***************************************************************************)
DueInstances ==
    {j \in Instances : j > jobIndex /\ jobInstances[j].StartTime <= currentTime}

\* Number of LeaseAcquired events among the first i events of log.
AcquiredAmong(log, i) ==
    Cardinality({m \in 1..i : log[m].Type = EventTypeLeaseAcquired})

\* Subsequence of the instances of log[1..n] whose event has type type.
RECURSIVE InstancesOfType(_, _, _)
InstancesOfType(log, n, type) ==
    IF n = 0 THEN <<>>
    ELSE IF log[n].Type = type
         THEN Append(InstancesOfType(log, n - 1, type), log[n].JobInstance)
         ELSE InstancesOfType(log, n - 1, type)

C15_AdmissionPhase ==
    [][pc = "start" =>
        LET n == Cardinality(DueInstances)
            new == SubSeq(events', Len(events) + 1, Len(events'))
            countAt(i) == activeLeases + AcquiredAmong(new, i - 1)
        IN  /\ DueInstances = (jobIndex + 1)..(jobIndex + n)
            /\ jobIndex' = jobIndex + n
            /\ Len(events') = Len(events) + n
            /\ SubSeq(events', 1, Len(events)) = events
            /\ \A i \in 1..n :
                /\ new[i].JobInstance = jobIndex + i
                /\ new[i].Time = currentTime
                /\ IF countAt(i) < config.MaxActiveLeases
                   THEN /\ IsDirectAcquire(new[i])
                        /\ ~new[i].IsWarning
                        /\ new[i].ActiveLeases = countAt(i) + 1
                   ELSE /\ IsWaiting(new[i])
                        /\ new[i].IsWarning
                        /\ new[i].ActiveLeases = countAt(i)
                        /\ jobInstances'[jobIndex + i].LeaseWaitTime = 0
            /\ activeLeases' = activeLeases + AcquiredAmong(new, n)
            /\ activeJobs' = activeJobs \o InstancesOfType(new, n, EventTypeLeaseAcquired)
            /\ waitingJobs' = waitingJobs \o InstancesOfType(new, n, EventTypeJobWaiting)
    ]_vars

\* An admission phase that has queued an instance behind one that was
\* already waiting, after a phase that granted a lease and queued an instance.
C15_Witness ==
    /\ pc = "finish"
    /\ Len(waitingJobs) >= 2
    /\ \E i \in EventIndexes :
            IsWaiting(events[i]) /\ events[i].Time = currentTime
    /\ \E i, k \in EventIndexes :
            /\ IsDirectAcquire(events[i])
            /\ IsWaiting(events[k])
            /\ events[i].Time = events[k].Time
            /\ events[k].Time < currentTime

(***************************************************************************)
(* C16: for an empty instance list the engine ends after at most one tick, *)
(* without stepping through the window, and the event log is empty.        *)
(***************************************************************************)
C16_EmptyListEndsAtOnce ==
    Len(scheduled) = 0 =>
        /\ events = <<>>
        /\ currentTime <= simulationStart + TickStep
        /\ (currentTime = simulationStart + TickStep => LoopExited)

\* The engine has ended on an empty list, the window being twelve ticks long.
C16_Witness ==
    /\ Len(scheduled) = 0
    /\ pc = "done"
    /\ simulationEnd - simulationStart >= 12 * TickStep
    /\ currentTime < simulationEnd

(***************************************************************************)
(* C17: for every event log, the empty one included, the sampler emits     *)
(* exactly one TimeSample per 30 minutes from the window start through     *)
(* the window end inclusive, with strictly increasing timestamps:          *)
(* floor(simulationDuration / 30m) + 1 samples.                            *)
(***************************************************************************)
SamplesCoverWindow ==
    /\ Len(timePoints) = (config.SimulationDuration \div SampleInterval) + 1
    /\ \A k \in 1..Len(timePoints) :
            timePoints[k].Time = simulationStart + (k - 1) * SampleInterval
    /\ \A k \in 1..Len(timePoints) :
            k < Len(timePoints) => timePoints[k].Time < timePoints[k + 1].Time

C17_OneSamplePerInterval == pc = "sampled" => SamplesCoverWindow

\* C17, as the code has it: the samples cover the window when the log has at
\* least one event, and there is no sample at all when the log is empty.
C17_OneSamplePerIntervalOfNonEmptyLog ==
    pc = "sampled" =>
        IF Len(events) = 0 THEN timePoints = <<>> ELSE SamplesCoverWindow

\* Three samples, the last one at the window end.
C17_Witness ==
    /\ pc = "sampled"
    /\ Len(timePoints) = 3
    /\ timePoints[3].Time = simulationEnd

(***************************************************************************)
(* C18: the sampler's waiting counter goes up by one on each Waiting       *)
(* event, down by one on each LeaseAcquired event only when it is above    *)
(* zero, and is never negative in any sample.                              *)
(***************************************************************************)
\* Number of events replayed when the sample of time t is taken.
ReplayedAt(t) == Cardinality({i \in EventIndexes : events[i].Time <= t})

\* Waiting events minus LeaseAcquired events among the first n events.
Balance(n) ==
    Cardinality({i \in 1..n : events[i].Type = EventTypeJobWaiting})
        - Cardinality({i \in 1..n : events[i].Type = EventTypeLeaseAcquired})

LowestBalance(n) ==
    CHOOSE b \in {Balance(m) : m \in 0..n} : \A m \in 0..n : b <= Balance(m)

\* A counter that steps by +1 and -1 and stops at zero is the balance above
\* its lowest point so far.
C18_WaitingCounter ==
    \A k \in 1..Len(timePoints) :
        LET n == ReplayedAt(timePoints[k].Time)
        IN  /\ timePoints[k].WaitingJobs >= 0
            /\ timePoints[k].WaitingJobs = Balance(n) - LowestBalance(n)

\* A sample with a positive counter taken after a LeaseAcquired event that
\* found the counter at zero.
C18_Witness ==
    \E k \in 1..Len(timePoints) :
        /\ timePoints[k].WaitingJobs > 0
        /\ LowestBalance(ReplayedAt(timePoints[k].Time)) < 0

(***************************************************************************)
(* C19: GetWarnings returns exactly the events of the log whose isWarning  *)
(* flag is set, in log order; every Waiting, WaitTimeout, ExecutionTimeout *)
(* and CapacityExceeded event is among them and no LeaseAcquired or        *)
(* LeaseReleased event is.                                                 *)
(***************************************************************************)
IsFlagged(e) == e.IsWarning

IsWarningType(e) ==
    e.Type \in {EventTypeJobWaiting, EventTypeJobTimeout, EventTypeMaxExceeded}

C19_WarningsAreFlaggedEvents ==
    /\ GetWarnings = SelectSeq(events, IsFlagged)
    /\ GetWarnings = SelectSeq(events, IsWarningType)
    /\ \A i \in EventIndexes :
        /\ (IsWaiting(events[i]) \/ IsWaitTimeout(events[i]) \/ IsExecTimeout(events[i])
                \/ events[i].Type = EventTypeMaxExceeded)
            => \E k \in 1..Len(GetWarnings) : GetWarnings[k] = events[i]
        /\ (events[i].Type \in {EventTypeLeaseAcquired, EventTypeLeaseReleased})
            => ~\E k \in 1..Len(GetWarnings) : GetWarnings[k] = events[i]

\* A log with a Waiting, a WaitTimeout and an ExecutionTimeout event among
\* others.
C19_Witness ==
    /\ Len(GetWarnings) >= 3
    /\ Len(GetWarnings) < Len(events)
    /\ \E k \in 1..Len(GetWarnings) : IsWaiting(GetWarnings[k])
    /\ \E k \in 1..Len(GetWarnings) : IsWaitTimeout(GetWarnings[k])
    /\ \E k \in 1..Len(GetWarnings) : IsExecTimeout(GetWarnings[k])

(***************************************************************************)
(* C20: cron generation walks a cursor from the window start, takes the    *)
(* schedule's next occurrence, stops at the first occurrence after the     *)
(* window end and moves the cursor to one minute past each occurrence      *)
(* found; it makes one instance per occurrence, with endTime = occurrence  *)
(* + duration, and none twice. A schedule firing every 12 hours, over a    *)
(* window of 24 hours that starts on a firing instant, gives exactly 2     *)
(* instances.                                                              *)
(***************************************************************************)
\* The activations after the window start and up to the window end.
Occurrences(schedule) ==
    {t \in (simulationStart + 1)..simulationEnd : Fires(schedule, t)}

EveryTwelveHours == [Valid |-> TRUE, Minute |-> 0, HourStep |-> 12]

C20_CronInstances ==
    (gen.pc \in {"loop", "done"} /\ ~ParseFails(gen.job.CronSchedule)) =>
        LET schedule == gen.job.CronSchedule
            instances == gen.instances
            n == Len(instances)
        IN  /\ \A k \in 1..n :
                /\ instances[k].StartTime \in Occurrences(schedule)
                /\ instances[k].EndTime = instances[k].StartTime + gen.job.Duration
            /\ \A k \in 1..n :
                k < n => instances[k].StartTime < instances[k + 1].StartTime
            /\ \A t \in Occurrences(schedule) :
                t < gen.currentTime => \E k \in 1..n : instances[k].StartTime = t
            /\ gen.currentTime =
                  IF n = 0 THEN simulationStart ELSE instances[n].StartTime + 1
            /\ gen.pc = "done" => n = Cardinality(Occurrences(schedule))
            /\ (gen.pc = "done" /\ schedule = EveryTwelveHours
                    /\ config.SimulationDuration = 1440) => n = 2

\* The schedule of every 12 hours over 24 hours: the second instance starts
\* at the window end.
C20_Witness ==
    /\ gen.pc = "done"
    /\ gen.job.CronSchedule = EveryTwelveHours
    /\ config.SimulationDuration = 1440
    /\ Len(gen.instances) = 2
    /\ gen.instances[2].StartTime = simulationEnd

\* The loop left by its break: the next occurrence is after the window end.
C20_WitnessBreak ==
    /\ gen.pc = "done"
    /\ ~ParseFails(gen.job.CronSchedule)
    /\ gen.currentTime < simulationEnd
    /\ Len(gen.instances) >= 2

(***************************************************************************)
(* Reading the generated instances.                                        *)
(***************************************************************************)
Generated == gen.pc \in {"sort", "simulate", "returned"}
JobIndexes == 1..Len(config.Jobs)
ReleaseControllerJobs ==
    {j \in JobIndexes : config.Jobs[j].TriggerType = TriggerTypeReleaseController}
CronJobIndexes == {j \in JobIndexes : config.Jobs[j].TriggerType = TriggerTypeCron}
InstancesOfJob(j) == {k \in 1..Len(gen.all) : gen.all[k].Job = j}
StartsOfJob(j) == {gen.all[k].StartTime : k \in InstancesOfJob(j)}
VersionOccurrences(version) ==
    UNION {StartsOfJob(j) : j \in {i \in ReleaseControllerJobs : config.Jobs[i].Version = version}}

\* The occurrences of a train: the first at the window start, each next one
\* 4 to 8 hours after the one before it, all before the window end.
IsReleaseTrain(occurrences) ==
    /\ simulationStart \in occurrences
    /\ \A t \in occurrences : t >= simulationStart /\ t < simulationEnd
    /\ \A t \in occurrences \ {simulationStart} :
        \E p \in occurrences :
            /\ p < t
            /\ \A o \in occurrences : ~(p < o /\ o < t)
            /\ t - p >= 4 * 60
            /\ t - p <= 8 * 60

(***************************************************************************)
(* C21: for release-triggered definitions the occurrences are generated    *)
(* per version, the first at the window start, each next one 4 to 8 hours  *)
(* after the previous, all before the window end; every definition of the  *)
(* version has exactly one instance per occurrence of the version, with    *)
(* that occurrence as its start time.                                      *)
(***************************************************************************)
C21_ReleaseTrainPerVersion ==
    Generated =>
        \A j \in ReleaseControllerJobs :
            LET occurrences == VersionOccurrences(config.Jobs[j].Version)
            IN  /\ IsReleaseTrain(occurrences)
                /\ \A t \in occurrences :
                    Cardinality({k \in InstancesOfJob(j) : gen.all[k].StartTime = t}) = 1
                /\ \A k \in InstancesOfJob(j) :
                    /\ gen.all[k].StartTime \in occurrences
                    /\ gen.all[k].EndTime = gen.all[k].StartTime + config.Jobs[j].Duration

\* The same, of the generator of events.go alone.
C21_ReleaseTrainPerVersionEvents ==
    engine = EngineEvents => C21_ReleaseTrainPerVersion

\* Two versions with different trains, two definitions of one version fired together.
C21_IndependentTrains ==
    /\ Generated
    /\ engine = EngineEvents
    /\ \E i, j \in ReleaseControllerJobs :
        /\ config.Jobs[i].Version # config.Jobs[j].Version
        /\ StartsOfJob(i) # StartsOfJob(j)

(***************************************************************************)
(* C22: the instance list handed to the engine is sorted ascending by      *)
(* start time, two instances with the same start time keep the order in    *)
(* which the generator produced them, and so the order of same-instant     *)
(* instances is the same on every run.                                     *)
(***************************************************************************)
PositionIn(list, a) == CHOOSE k \in 1..Len(list) : list[k] = a

C22_SortedAscending ==
    gen.pc \in {"simulate", "returned"} =>
        \A a, b \in 1..Len(jobInstances) :
            a < b => jobInstances[a].StartTime <= jobInstances[b].StartTime

C22_TiesKeepGeneratorOrder ==
    gen.pc \in {"simulate", "returned"} =>
        \A a, b \in 1..Len(jobInstances) :
            (a < b /\ jobInstances[a].StartTime = jobInstances[b].StartTime) =>
                PositionIn(gen.all, jobInstances[a]) < PositionIn(gen.all, jobInstances[b])

C22_SameOrderOnEveryRun ==
    (gen.pc \in {"simulate", "returned"} /\ gen.rerun) =>
        LET now == SameInstant(jobInstances)
        IN  \A a, b \in 1..Len(now) :
                \A c, d \in 1..Len(gen.previous) :
                    (/\ a < b
                     /\ now[a][2] = now[b][2]
                     /\ gen.previous[c] = now[a]
                     /\ gen.previous[d] = now[b]) => c < d

C22_SortedStable ==
    /\ C22_SortedAscending
    /\ C22_TiesKeepGeneratorOrder
    /\ C22_SameOrderOnEveryRun

(***************************************************************************)
(* C23: a malformed cron schedule is not fatal: its definition gets no     *)
(* instance, the instances of every other definition are those generated   *)
(* without it, and Run ends without an error.                              *)
(***************************************************************************)
IsMalformed(j) == config.Jobs[j].CronSchedule = CronMalformed

HasMalformed == \E j \in CronJobIndexes : IsMalformed(j)

RECURSIVE Ascending(_)
Ascending(times) ==
    IF times = {}
    THEN <<>>
    ELSE LET first == CHOOSE t \in times : \A u \in times : t <= u
         IN  <<first>> \o Ascending(times \ {first})

\* The instances of the well-formed cron definitions among the first n of
\* the configuration, from the occurrences of their schedules in the window.
RECURSIVE WellFormedCronInstances(_)
WellFormedCronInstances(n) ==
    IF n = 0
    THEN <<>>
    ELSE LET job == config.Jobs[n]
             skipped == \/ job.TriggerType # TriggerTypeCron
                        \/ ~job.CronSchedule.Valid
             times == IF skipped THEN <<>> ELSE Ascending(Occurrences(job.CronSchedule))
         IN  WellFormedCronInstances(n - 1) \o
                [k \in 1..Len(times) |->
                    [Job |-> n, StartTime |-> times[k], EndTime |-> times[k] + job.Duration,
                     LeaseAcquired |-> FALSE, LeaseWaitTime |-> 0, TimedOut |-> FALSE]]

C23_MalformedCronSkipped ==
    HasMalformed =>
        /\ gen.err \in {"pending", "nil"}
        /\ gen.pc = "returned" => gen.err = "nil"
        /\ Generated =>
            /\ \A j \in CronJobIndexes :
                IsMalformed(j) => InstancesOfJob(j) = {}
            /\ SelectSeq(gen.all, LAMBDA a : a.Job \in CronJobIndexes)
                    = WellFormedCronInstances(Len(config.Jobs))
            /\ \A j \in ReleaseControllerJobs : InstancesOfJob(j) # {}

C23_Witness ==
    /\ HasMalformed
    /\ gen.pc = "returned"
    /\ gen.err = "nil"
    /\ gen.warned
    /\ \E i, j \in CronJobIndexes :
        /\ i < j
        /\ IsMalformed(i)
        /\ InstancesOfJob(j) # {}
    /\ \E i, j \in CronJobIndexes :
        /\ i < j
        /\ IsMalformed(j)
        /\ InstancesOfJob(i) # {}

(***************************************************************************)
(* C26: the event log is append-only: every step leaves it unchanged or    *)
(* extends it at its end, so an earlier log is a prefix of every later     *)
(* one and the timestamp, kind, activeCountAfter and warning flag of a     *)
(* logged event never change.                                              *)
(***************************************************************************)
C26_LogAppendOnly ==
    [][/\ Len(events') >= Len(events)
       /\ \A i \in EventIndexes :
            /\ events'[i].Time = events[i].Time
            /\ events'[i].Type = events[i].Type
            /\ events'[i].ActiveLeases = events[i].ActiveLeases
            /\ events'[i].IsWarning = events[i].IsWarning
            /\ events'[i] = events[i]]_vars

\* A log that grew in at least three different phases of two ticks.
C26_Witness ==
    /\ \E i \in EventIndexes : IsDirectAcquire(events[i])
    /\ \E i \in EventIndexes : IsPromotion(events[i])
    /\ \E i \in EventIndexes : IsWaitTimeout(events[i])
    /\ \E i \in EventIndexes : IsExecTimeout(events[i])

(***************************************************************************)
(* C27: at the end of every tick, if the waiting list is not empty then    *)
(* activeCount = maxActiveLeases: no lease is idle while an instance       *)
(* waits.                                                                  *)
(***************************************************************************)
C27_NoIdleLeaseWhileWaiting ==
    (EndOfTick /\ Len(waitingJobs) > 0) => activeLeases = config.MaxActiveLeases

\* The consequence drawn in C27: the admission phase grants no lease while an
\* instance is waiting.
C27_NoAdmissionAheadOfWaiting ==
    [][(pc = "start" /\ Len(waitingJobs) > 0) =>
        \A i \in 1..Len(events') :
            i > Len(events) => ~IsDirectAcquire(events'[i])]_vars

(***************************************************************************)
(* C28: every lease acquired is released exactly once: each LeaseAcquired  *)
(* event of an instance is followed in the log by exactly one              *)
(* LeaseReleased event of that instance, so when the loop has ended the    *)
(* two kinds of events are equal in number and activeCount is 0.           *)
(***************************************************************************)
ReleasesAfter(i) ==
    {k \in EventIndexes :
        /\ k > i
        /\ IsReleased(events[k])
        /\ events[k].JobInstance = events[i].JobInstance}

C28_AcquiredThenReleasedOnce ==
    LoopExited =>
        /\ \A i \in EventIndexes :
            events[i].Type = EventTypeLeaseAcquired => Cardinality(ReleasesAfter(i)) = 1
        /\ Cardinality({i \in EventIndexes : events[i].Type = EventTypeLeaseAcquired})
             = Cardinality({i \in EventIndexes : IsReleased(events[i])})
        /\ activeLeases = 0

(***************************************************************************)
(* C29: an instance whose duration is at most jobTimeoutDuration never     *)
(* gets an ExecutionTimeout event, admitted directly or promoted.          *)
(***************************************************************************)
C29_ShortJobsNeverTimeOut ==
    \A i \in EventIndexes :
        IsExecTimeout(events[i]) =>
            scheduled[events[i].JobInstance].Job.Duration > config.JobTimeoutDuration

(***************************************************************************)
(* C30: an instance arriving at tick t while activeCount = maxActiveLeases *)
(* is queued with a Waiting warning even when an Active instance completes *)
(* at t; it is then promoted in the completion phase of t, its             *)
(* LeaseAcquired event having timestamp t and its accumulated wait being 0.*)
(***************************************************************************)
ArrivedThisTick(j) ==
    \E i \in EventIndexes :
        /\ IsWaiting(events[i])
        /\ events[i].JobInstance = j
        /\ events[i].Time = currentTime

\* Job j is promoted by the step, with an event of the current tick.
PromotedByStep(j) ==
    /\ jobInstances[j].LeaseWaitTime = 0
    /\ j \in SeqRange(activeJobs')
    /\ \E i \in 1..Len(events') :
        /\ i > Len(events)
        /\ IsPromotion(events'[i])
        /\ events'[i].JobInstance = j
        /\ events'[i].Time = currentTime

\* The admission of a full tick with a completion due: every arrival is queued.
QueuedDespiteCompletion ==
    (pc = "start" /\ activeLeases = config.MaxActiveLeases /\ FinishedCount > 0) =>
        \A j \in DueInstances :
            /\ j \in SeqRange(waitingJobs')
            /\ \E i \in 1..Len(events') :
                /\ i > Len(events)
                /\ IsWaiting(events'[i])
                /\ events'[i].IsWarning
                /\ events'[i].JobInstance = j
                /\ events'[i].Time = currentTime

C30_ArrivalPromotedSameTick ==
    [][/\ QueuedDespiteCompletion
       /\ (pc = "finish" /\ FinishedCount > 0) =>
            \A q \in 1..Len(waitingJobs) :
                ArrivedThisTick(waitingJobs[q]) => PromotedByStep(waitingJobs[q])]_vars

\* C30, as the code has it: the waiting list is served from its head, so the
\* arrival is promoted at t when fewer instances are ahead of it in the list
\* than leases are released at t, and stays queued otherwise.
C30_ArrivalPromotedInTurn ==
    [][/\ QueuedDespiteCompletion
       /\ (pc = "finish" /\ FinishedCount > 0) =>
            \A q \in 1..Len(waitingJobs) :
                ArrivedThisTick(waitingJobs[q]) =>
                    IF q <= FinishedCount
                    THEN PromotedByStep(waitingJobs[q])
                    ELSE waitingJobs[q] \in SeqRange(waitingJobs')]_vars

\* An arrival queued and promoted at the same tick.
C30_Witness ==
    /\ pc = "waitTimeout"
    /\ \E i, k \in EventIndexes :
        /\ i < k
        /\ IsWaiting(events[i])
        /\ IsPromotion(events[k])
        /\ events[i].JobInstance = events[k].JobInstance
        /\ events[i].Time = currentTime
        /\ events[k].Time = currentTime

\* An arrival left in the list at a tick that released a lease to an
\* instance queued before it.
C30_WitnessBehind ==
    /\ pc = "waitTimeout"
    /\ \E i \in EventIndexes :
        /\ IsWaiting(events[i])
        /\ events[i].Time = currentTime
        /\ events[i].JobInstance \in SeqRange(waitingJobs)
    /\ \E k \in EventIndexes :
        /\ IsPromotion(events[k])
        /\ events[k].Time = currentTime

(***************************************************************************)
(* C24: the command ends with exit status 1 whenever the simulation        *)
(* logged at least one warning event, and with 0 only when it logged none. *)
(***************************************************************************)
C24_ExitStatusTellsWarnings ==
    pc = "exited" => (exitStatus = 1 <=> Len(GetWarnings) > 0)

(***************************************************************************)
(* C25: release-controller jobs have reserved capacity: a                  *)
(* release-controller instance arriving while the regular capacity is      *)
(* full (activeCount = maxActiveLeases, held by cron instances) still      *)
(* acquires a lease at that tick and is not queued.                        *)
(***************************************************************************)
IsCron(j) == scheduled[j].Job.TriggerType = TriggerTypeCron
IsReleaseController(j) == scheduled[j].Job.TriggerType = TriggerTypeReleaseController

\* Instance j arrived at tick t while activeLeases = MaxActiveLeases: its
\* arrival event, queued or admitted, was logged at t on a full pool.
ArrivedWhileFull(j, t) ==
    \E i \in EventIndexes :
        /\ events[i].JobInstance = j
        /\ events[i].Time = t
        /\ \/ IsWaiting(events[i]) /\ events[i].ActiveLeases = config.MaxActiveLeases
           \/ IsDirectAcquire(events[i]) /\ events[i].ActiveLeases = config.MaxActiveLeases + 1

AcquiredAt(j, t) ==
    \E i \in EventIndexes :
        /\ events[i].JobInstance = j
        /\ events[i].Time = t
        /\ events[i].Type = EventTypeLeaseAcquired

C25_ReleaseControllerReserved ==
    \A j \in Instances :
        (/\ IsReleaseController(j)
         /\ \A k \in Instances \ {j} : IsCron(k)) =>
            \A t \in 0..currentTime :
                (ArrivedWhileFull(j, t) /\ currentTime > t) => AcquiredAt(j, t)

(***************************************************************************)
(* C31: promotion wins over the wait timeout within a tick: when a lease   *)
(* is released at tick t the head of the waiting list is promoted at t,    *)
(* even when the 5 minutes that the wait-timeout phase of t adds would     *)
(* have brought its wait to LeaseWaitTimeout; a promoted instance never    *)
(* gets a wait-timeout event.                                              *)
(***************************************************************************)
\* The instances waiting when the event at position i was logged: queued
\* before it, and neither promoted nor timed out of the queue before it.
WaitingBefore(i) ==
    {j \in Instances :
        /\ \E k \in 1..(i - 1) : IsWaiting(events[k]) /\ events[k].JobInstance = j
        /\ ~\E k \in 1..(i - 1) :
                /\ events[k].JobInstance = j
                /\ IsPromotion(events[k]) \/ IsWaitTimeout(events[k])}

EventsAt(t, P(_)) == {i \in EventIndexes : events[i].Time = t /\ P(events[i])}

C31_PromotionBeforeWaitTimeout ==
    /\ \A i \in EventIndexes :
        (IsReleased(events[i]) /\ WaitingBefore(i) # {}) =>
            /\ i < Len(events)
            /\ IsPromotion(events[i + 1])
            /\ events[i + 1].Time = events[i].Time
            /\ events[i + 1].JobInstance \in WaitingBefore(i)
            /\ \A j \in WaitingBefore(i) :
                EnqueuePos(events[i + 1].JobInstance) <= EnqueuePos(j)
    /\ \A i \in EventIndexes :
        IsWaitTimeout(events[i]) =>
            Cardinality(EventsAt(events[i].Time, IsReleased))
                = Cardinality(EventsAt(events[i].Time, IsPromotion))
    /\ \A j \in Instances : ~(HasEvent(j, IsPromotion) /\ HasEvent(j, IsWaitTimeout))

\* An instance promoted in the tick whose wait-timeout phase would have
\* timed it out.
C31_Witness ==
    \E i \in EventIndexes :
        LET j == events[i].JobInstance
        IN  /\ IsPromotion(events[i])
            /\ jobInstances[j].LeaseWaitTime + WaitIncrement >= config.LeaseWaitTimeout
            /\ jobInstances[j].LeaseWaitTime < config.LeaseWaitTimeout
            /\ ~HasEvent(j, IsWaitTimeout)
            /\ pc = "step"

(***************************************************************************)
(* C32: the ActiveLeases of every sample equals the engine's activeLeases  *)
(* at the end of the tick of the sample's time: the replay of the events'  *)
(* ActiveLeases agrees with the engine at every sampled instant of the     *)
(* window.                                                                 *)
(***************************************************************************)
HasTick(t) == \E tick \in history : tick.Time = t

\* What the engine held at the end of the tick of time t; after its last
\* tick, what it holds since.
EngineAt(t) ==
    IF HasTick(t)
    THEN CHOOSE tick \in history : tick.Time = t
    ELSE [Time |-> t, ActiveLeases |-> activeLeases,
          ActiveJobs |-> Len(activeJobs), WaitingJobs |-> Len(waitingJobs)]

C32_SampleActiveMatchesEngine ==
    \A k \in 1..Len(timePoints) :
        LET engineThen == EngineAt(timePoints[k].Time)
        IN  /\ timePoints[k].ActiveLeases = engineThen.ActiveLeases
            /\ timePoints[k].ActiveLeases = engineThen.ActiveJobs

\* A sample taken at a tick that released a lease and left one held.
C32_Witness ==
    \E k \in 1..Len(timePoints) :
        /\ timePoints[k].Time > simulationStart
        /\ HasTick(timePoints[k].Time)
        /\ timePoints[k].ActiveLeases > 0
        /\ EventsAt(timePoints[k].Time, IsReleased) # {}

(***************************************************************************)
(* C33: the WaitingJobs of every sample is at least the length of the      *)
(* engine's waiting list at the end of the tick of the sample's time: the  *)
(* sampler's counter never under-counts, a wait-timeout event leaving it   *)
(* unchanged and a direct LeaseAcquired happening only when the waiting    *)
(* list is empty.                                                          *)
(***************************************************************************)
C33_SampleWaitingNotBelowQueue ==
    \A k \in 1..Len(timePoints) :
        timePoints[k].WaitingJobs >= EngineAt(timePoints[k].Time).WaitingJobs

\* The same, of the copy of the engine in simulator.go alone.
C33_SampleWaitingNotBelowQueueSimulator ==
    engine = EngineSimulator => C33_SampleWaitingNotBelowQueue

\* A direct admission is logged only while nobody waits.
C33_DirectAcquireOnlyWhenQueueEmpty ==
    \A i \in EventIndexes : IsDirectAcquire(events[i]) => WaitingBefore(i) = {}

\* A sample that counts more than the waiting list held: an instance had
\* timed out of the queue before it.
C33_WitnessOverCount ==
    \E k \in 1..Len(timePoints) :
        /\ HasTick(timePoints[k].Time)
        /\ timePoints[k].WaitingJobs > EngineAt(timePoints[k].Time).WaitingJobs
        /\ \E i \in EventIndexes :
            IsWaitTimeout(events[i]) /\ events[i].Time <= timePoints[k].Time

(***************************************************************************)
(* C34: validateConfig returns an error, and LoadConfig then returns no    *)
(* configuration, whenever maxActiveLeases, jobTimeoutDuration,            *)
(* leaseWaitTimeout or simulationDuration is not greater than 0, the job   *)
(* list is empty, or a job has an empty name, a non-positive duration, a   *)
(* triggerType other than cron or release-controller, or is a cron job     *)
(* with an empty cronSchedule; otherwise it returns no error and leaves    *)
(* the configuration unchanged.                                            *)
(***************************************************************************)
JobRejected(job) ==
    \/ job.Name = ""
    \/ ~(job.Duration > 0)
    \/ job.TriggerType \notin {TriggerTypeCron, TriggerTypeReleaseController}
    \/ job.TriggerType = TriggerTypeCron /\ job.CronSchedule = ""

Rejected(c) ==
    \/ ~(c.MaxActiveLeases > 0)
    \/ ~(c.JobTimeoutDuration > 0)
    \/ ~(c.LeaseWaitTimeout > 0)
    \/ ~(c.SimulationDuration > 0)
    \/ c.Jobs = <<>>
    \/ \E i \in 1..Len(c.Jobs) : JobRejected(c.Jobs[i])

\* validateConfig has returned.
Validated ==
    \/ gen.pc = "validated"
    \/ /\ gen.pc = "returned"
       /\ gen.err \notin {"failed to read config file", "failed to parse config file"}

C34_ValidateConfig ==
    /\ Validated =>
        /\ gen.err # NoError <=> Rejected(gen.unmarshalled)
        /\ gen.err = NoError => config = gen.unmarshalled
    /\ gen.pc = "returned" =>
        /\ gen.err # NoError => gen.result = <<>>
        /\ (gen.err = NoError) => gen.result = <<gen.unmarshalled>>

\* A configuration accepted with a release-controller job after a cron job.
C34_Witness ==
    /\ gen.pc = "returned"
    /\ gen.err = NoError
    /\ gen.result = <<gen.unmarshalled>>
    /\ Len(config.Jobs) = 2
    /\ config.Jobs[1].TriggerType = TriggerTypeCron
    /\ config.Jobs[2].TriggerType = TriggerTypeReleaseController

\* A configuration rejected for its second job alone, a cron job without schedule.
C34_WitnessRejected ==
    /\ gen.pc = "returned"
    /\ gen.result = <<>>
    /\ gen.err = "cronSchedule is required for cron-type jobs"
    /\ Len(config.Jobs) = 2
    /\ ~JobRejected(config.Jobs[1])

=============================================================================
